---- MODULE Spec2Model ----
(***************************************************************************)
(* A model of python-barcode's writer layer (barcode/writer.py), of the    *)
(* Barcode base class (barcode/base.py) and of the package entry points    *)
(* (barcode/__init__.py).                                                  *)
(*                                                                         *)
(* Conventions.                                                            *)
(*  - Lengths are held in micrometres (1 mm = 1000), so the option values  *)
(*    0.2 mm, 6.5 mm, 15.0 mm are 200, 6500, 15000.  Python computes in    *)
(*    binary floating point; the model computes the same expressions       *)
(*    exactly.                                                             *)
(*  - A dpi value is held in tenths (300 dpi = 3000, SVGWriter's 25.4 =    *)
(*    254).                                                                *)
(*  - A Python str is a sequence of one-character strings.  None is the    *)
(*    string "None" where a callback, an exception or an atom may be       *)
(*    absent, Nil where an object may be, NoneStr where a str may be.      *)
(***************************************************************************)
EXTENDS Integers, Sequences, FiniteSets, TLC

VARIABLES
    pc,        \* position of the caller: "call" before the operation, "done" after
    writer,    \* the writer object the caller holds: its attributes
    barcodes,  \* the barcodes the caller holds that use the caller's writer
    defaults,  \* the class attribute Barcode.default_writer_options
    fp,        \* the file object of the caller: the values written to it
    files,     \* the files saved: name, extension and format
    code,      \* the argument of render: a list of lines over "0"/"1"
    events,    \* the paint events the callbacks received, in order
    mlists,    \* the run-length token list render derived for each line
    raised,    \* the exception the operation ended with, or "None"
    ret,       \* the value the operation returned
    args       \* the arguments of the operation, other than code

vars == <<pc, writer, barcodes, defaults, fp, files, code, events, mlists,
         raised, ret, args>>

\* what the writer layer does not touch
api == <<barcodes, defaults, fp, files>>

None == "None"

\* an absent object, and an absent str
Nil == [nil |-> TRUE]

NoneStr == <<"None">>

(***************************************************************************)
(* Bounds of the model.                                                    *)
(***************************************************************************)
MaxModules == 4 \* most modules of a code, over all its lines
MaxLines == 2   \* most lines of a code

(***************************************************************************)
(* Small helpers.                                                          *)
(***************************************************************************)
Abs(n) == IF n < 0 THEN -n ELSE n

SeqsUpTo(S, n) == UNION {[1..k -> S] : k \in 0..n}

RECURSIVE Concat(_)
Concat(ss) == IF ss = <<>> THEN <<>> ELSE Head(ss) \o Concat(Tail(ss))

Lines == SeqsUpTo({"0", "1"}, MaxModules)

Codes == {c \in SeqsUpTo(Lines, MaxLines) : Len(Concat(c)) <= MaxModules}

(***************************************************************************)
(* writer.py:24-29  mm2px and pt2mm.                                       *)
(* mm2px(mm, dpi) = mm*dpi/25.4 is a rational; every use in the code       *)
(* truncates it with int(), so the model keeps numerator and denominator   *)
(* and int() is the integer division.                                      *)
(***************************************************************************)
mm2px_num(um, dpi10) == um * dpi10

mm2px_den == 254000

\* round() in place of int(): to nearest, ties to even
RoundOf(num, den) ==
    LET q == num \div den
        r == num % den
    IN  IF 2 * r < den THEN q
        ELSE IF 2 * r > den THEN q + 1
        ELSE IF q % 2 = 0 THEN q ELSE q + 1

IntOf(num, den) == num \div den

(***************************************************************************)
(* writer.py:204-215  the packing loop of render, for one line.            *)
(*   line += " "; c = 1; mlist = []                                        *)
(*   for i in range(0, len(line) - 1): ...                                 *)
(* padded is the line with the blank appended, i the 1-based loop index.   *)
(***************************************************************************)
RECURSIVE PackLoop(_, _, _, _)
PackLoop(padded, i, c, mlist) ==
    IF i > Len(padded) - 1 THEN mlist
    ELSE IF padded[i] = padded[i + 1]
         THEN PackLoop(padded, i + 1, c + 1, mlist)
         ELSE PackLoop(padded, i + 1, 1,
                       Append(mlist, IF padded[i] = "1" THEN c ELSE -c))

PackDropLast(line) == PackLoop(line, 1, 1, <<>>)

Pack(line) == PackLoop(Append(line, " "), 1, 1, <<>>)

(***************************************************************************)
(* writer.py:82-104  BaseWriter.__init__: the attributes of a new writer   *)
(* and its callback table.                                                 *)
(***************************************************************************)
BaseWriterCallbacks(initialize, paint_module, paint_text, finish) ==
    [initialize |-> initialize, paint_module |-> paint_module,
     paint_text |-> paint_text, finish |-> finish]

BaseWriterInit(initialize, paint_module, paint_text, finish) ==
    [_callbacks |-> BaseWriterCallbacks(initialize, paint_module, paint_text,
                                        finish),
     module_width |-> 10000, module_height |-> 10000, font_size |-> 10,
     quiet_zone |-> 6500, background |-> "white", foreground |-> "black",
     write_text |-> TRUE, text |-> <<>>, human |-> <<>>,
     text_distance |-> 5000, text_line_distance |-> 1000,
     center_text |-> TRUE, supported_file_types |-> {}, _file_type |-> None]

(***************************************************************************)
(* writer.py:158-168  register_callback.                                   *)
(***************************************************************************)
register_callback(w, action, callback) ==
    [w EXCEPT !._callbacks[action] = callback]

(***************************************************************************)
(* writer.py:219-228  the module loop of render for one line: one          *)
(* paint_module call per token, xpos advancing by the token's width.       *)
(***************************************************************************)
\* a paint_module call that is not given the vertical cursor
PaintModuleFlat(xpos, ypos, width, color) ==
    [ev |-> "paint_module", xpos |-> xpos, ypos |-> 1000, width |-> width,
     color |-> color]

PaintModule(xpos, ypos, width, color) ==
    [ev |-> "paint_module", xpos |-> xpos, ypos |-> ypos, width |-> width,
     color |-> color]

RECURSIVE ModuleLoop(_, _, _, _, _, _)
ModuleLoop(w, mlist, k, xpos, ypos, evs) ==
    IF k > Len(mlist) THEN [evs |-> evs, xpos |-> xpos]
    ELSE LET mod == mlist[k]
             color == IF mod < 1 THEN w.background ELSE w.foreground
             width == w.module_width * Abs(mod)
         IN  ModuleLoop(w, mlist, k + 1, xpos + width, ypos,
                        Append(evs, PaintModule(xpos, ypos, width, color)))

(***************************************************************************)
(* writer.py:197-237  the line loop of render.  cc is the 1-based index    *)
(* of the line; the result carries the values the locals ypos, bxs, bxe    *)
(* have after the loop, the paint_module calls made, in order, and the     *)
(* token list of every line.                                               *)
(***************************************************************************)
RECURSIVE LineLoop(_, _, _, _, _, _, _, _)
LineLoop(w, lines, cc, ypos, bxs, bxe, evs, packed) ==
    IF cc > Len(lines)
    THEN [ypos |-> ypos, bxs |-> bxs, bxe |-> bxe, evs |-> evs,
          mlists |-> packed]
    ELSE LET mlist == Pack(lines[cc])
             xpos0 == w.quiet_zone
             body == ModuleLoop(w, mlist, 1, xpos0, ypos, evs)
             evs1 == IF cc # Len(lines)
                     THEN Append(body.evs,
                                 PaintModule(body.xpos, ypos, w.quiet_zone,
                                             w.background))
                     ELSE body.evs
         IN  LineLoop(w, lines, cc + 1, ypos + w.module_height, xpos0,
                      body.xpos, evs1, Append(packed, mlist))

(***************************************************************************)
(* writer.py:186-246  BaseWriter.render.  The result is the sequence of    *)
(* callback invocations, the exception that ended the pass ("None" when    *)
(* it returned) and the returned value.                                    *)
(*  - initialize and paint_text are skipped when not registered;           *)
(*  - paint_module and finish are called unguarded: calling None raises    *)
(*    TypeError at the first such call;                                    *)
(*  - bxs and bxe are bound only inside the line loop, so placing the      *)
(*    text of an empty code raises UnboundLocalError.                      *)
(* A registered finish callback is held as the value it returns.           *)
(***************************************************************************)
FirstPaintLine(lines) ==
    \* index of the first line during which paint_module is called
    LET hit == {cc \in 1..Len(lines) : Pack(lines[cc]) # <<>> \/ cc # Len(lines)}
    IN  IF hit = {} THEN 0 ELSE CHOOSE cc \in hit : \A d \in hit : cc <= d

\* a text that is never centred
TextXposLeft(w, loop) == loop.bxs

TextXpos(w, loop) ==
    IF w.center_text THEN loop.bxs + ((loop.bxe - loop.bxs) \div 2)
    ELSE loop.bxs

FinishSkipped(cb, evs) ==
    [events |-> evs, raised |-> None, ret |-> None]

Finish(cb, evs) ==
    IF cb.finish = None
    THEN [events |-> evs, raised |-> "TypeError", ret |-> None]
    ELSE [events |-> Append(evs, [ev |-> "finish"]), raised |-> None,
          ret |-> cb.finish]

Initialize(cb, lines) ==
    IF cb.initialize # None
    THEN <<[ev |-> "initialize", code |-> lines]>>
    ELSE <<>>

render(w, lines) ==
    LET cb == w._callbacks
        evs0 == Initialize(cb, lines)
        loop == LineLoop(w, lines, 1, 1000, 0, 0, <<>>, <<>>)
        first == FirstPaintLine(lines)
    IN  IF first # 0 /\ cb.paint_module = None
        THEN [events |-> evs0, raised |-> "TypeError", ret |-> None,
              mlists |-> SubSeq(loop.mlists, 1, first)]
        ELSE LET evs1 == evs0 \o loop.evs
             IN  IF w.text # <<>> /\ cb.paint_text # None
                 THEN IF lines = <<>>
                      THEN [events |-> evs1, raised |-> "UnboundLocalError",
                            ret |-> None, mlists |-> loop.mlists]
                      ELSE LET ypos == loop.ypos + w.text_distance
                               evs2 == Append(evs1,
                                          [ev |-> "paint_text",
                                           xpos |-> TextXpos(w, loop),
                                           ypos |-> ypos])
                           IN  [mlists |-> loop.mlists] @@ Finish(cb, evs2)
                 ELSE [mlists |-> loop.mlists] @@ Finish(cb, evs1)

(***************************************************************************)
(* Option dictionaries.  A dict is the sequence of its items in insertion  *)
(* order.  A key is held as the number of its leading underscores and the  *)
(* rest of the string, so "_text" is Key(1, "text"); the rest never starts *)
(* with an underscore.                                                     *)
(***************************************************************************)
Key(us, name) == [us |-> us, name |-> name]

Item(key, val) == [key |-> key, val |-> val]

HasKey(d, key) == \E i \in 1..Len(d) : d[i].key = key

Get(d, key) == d[CHOOSE i \in 1..Len(d) : d[i].key = key].val

\* d[key] = val: an existing key keeps its position, a new key goes last
DictSet(d, key, val) ==
    IF HasKey(d, key)
    THEN [i \in 1..Len(d) |-> IF d[i].key = key THEN Item(key, val) ELSE d[i]]
    ELSE Append(d, Item(key, val))

\* dict(a, **b)
RECURSIVE DictUpdate(_, _)
DictUpdate(a, b) ==
    IF b = <<>> THEN a
    ELSE DictUpdate(DictSet(a, Head(b).key, Head(b).val), Tail(b))

\* str.lstrip("_")
lstrip(key) == Key(0, key.name)

(***************************************************************************)
(* writer.py:106-117  the file_type property.                              *)
(***************************************************************************)
file_type(w) == w._file_type

\* a setter that takes any value
file_type_setter_any(w, value) ==
    [w |-> [w EXCEPT !._file_type = value], raised |-> None]

file_type_setter(w, value) ==
    IF value \in w.supported_file_types
    THEN [w |-> [w EXCEPT !._file_type = value], raised |-> None]
    ELSE [w |-> w, raised |-> "ValueError"]

(***************************************************************************)
(* writer.py:170-184  set_options.  hasattr(self, key) holds for the       *)
(* instance attributes and for the file_type property; the attributes     *)
(* whose names start with an underscore cannot match a stripped key.       *)
(* The loop stops at the first exception (the file_type setter's).         *)
(***************************************************************************)
Properties == {"file_type"}

\* the instance attributes whose names start with an underscore
PrivateAttrs == {"_callbacks", "_file_type", "_document", "_image", "_draw"}

hasattr_any(w, key) == TRUE

hasattr(w, key) ==
    /\ key.us = 0
    /\ \/ key.name \in Properties
       \/ key.name \in DOMAIN w \ PrivateAttrs

setattr(w, key, val) ==
    IF key.name \in Properties
    THEN file_type_setter(w, val)
    ELSE IF key.name \in DOMAIN w
    THEN [w |-> [w EXCEPT ![key.name] = val], raised |-> None]
    ELSE [w |-> w @@ (key.name :> val), raised |-> None]

RECURSIVE set_options_loop(_, _, _)
set_options_loop(w, options, i) ==
    IF i > Len(options) THEN [w |-> w, raised |-> None]
    ELSE LET key == lstrip(options[i].key)
         IN  IF hasattr(w, key)
             THEN LET r == setattr(w, key, options[i].val)
                  IN  IF r.raised # None THEN r
                      ELSE set_options_loop(r.w, options, i + 1)
             ELSE set_options_loop(w, options, i + 1)

set_options(w, options) == set_options_loop(w, options, 1)

(***************************************************************************)
(* writer.py:119-142  calculate_size.                                      *)
(*   width  = 2*quiet_zone + modules_per_line*module_width                 *)
(*   height = 2.0 + module_height*number_of_lines                          *)
(*   if font_size and text:                                                *)
(*     height += pt2mm(font_size)/(2*dpi/200)*number_of_text_lines         *)
(*               + text_distance                                           *)
(*     height += text_line_distance*(number_of_text_lines - 1)             *)
(*   return int(mm2px(width, dpi)), int(mm2px(height, dpi))                *)
(* The height in millimetres is not a whole number of micrometres once     *)
(* the font term is added, so it is held in two parts: um micrometres plus *)
(* pt times pt2mm(1)/(2*dpi/200) millimetres.                              *)
(***************************************************************************)
\* len(str.splitlines()): the number of "\n", plus one for an unterminated
\* last line
splitlines_len(text) ==
    Cardinality({i \in 1..Len(text) : text[i] = "\n"})
        + (IF text # <<>> /\ text[Len(text)] # "\n" THEN 1 ELSE 0)

width_mm(w, modules_per_line) ==
    2 * w.quiet_zone + modules_per_line * w.module_width

height_base_no_margin(w, number_of_lines) == w.module_height * number_of_lines

height_base(w, number_of_lines) == 2000 + w.module_height * number_of_lines

has_text_block(w) == w.font_size # 0 /\ w.text # <<>>

height_mm(w, number_of_lines) ==
    LET number_of_text_lines == splitlines_len(w.text)
    IN  IF has_text_block(w)
        THEN [um |-> height_base(w, number_of_lines) + w.text_distance
                        + w.text_line_distance * (number_of_text_lines - 1),
              pt |-> w.font_size * number_of_text_lines]
        ELSE [um |-> height_base(w, number_of_lines), pt |-> 0]

\* int(mm2px(height, dpi)) for height = um/1000 + pt*0.352777778*100/dpi:
\*   height*dpi/25.4 = um*dpi10/254000 + pt*352777778/254000000
\*                   = um*dpi10/254000 + pt + pt*49388889/127000000
\* evaluated without leaving 32 bits (127000000 = 500 * 254000).
height_px(h, dpi10) ==
    LET x == mm2px_num(h.um, dpi10)
        q == x \div mm2px_den
        r == x % mm2px_den
    IN  q + h.pt + ((r * 500 + h.pt * 49388889) \div 127000000)

calculate_size(w, modules_per_line, number_of_lines, dpi10) ==
    [width |-> IntOf(mm2px_num(width_mm(w, modules_per_line), dpi10), mm2px_den),
     height |-> height_px(height_mm(w, number_of_lines), dpi10),
     width_mm |-> width_mm(w, modules_per_line),
     height_mm |-> height_mm(w, number_of_lines)]

(***************************************************************************)
(* writer.py:249-260  SVGWriter.__init__.  The callbacks are the writer's  *)
(* own methods, held by name.  _root and _group are references into        *)
(* _document and are not held apart from it.                               *)
(***************************************************************************)
SVGWriterInit ==
    [BaseWriterInit("_init", "_create_module", "_create_text", "_finish")
        EXCEPT !.supported_file_types = {<<"S", "V", "G">>},
               !._file_type = <<"S", "V", "G">>]
        @@ [compress |-> FALSE, dpi |-> 254, _document |-> Nil]

(***************************************************************************)
(* writer.py:343-362  ImageWriter.__init__(file_type).                     *)
(***************************************************************************)
ImageFileTypes ==
    {<<"P", "N", "G">>, <<"B", "M", "P">>, <<"G", "I", "F">>,
     <<"J", "P", "E", "G">>, <<"M", "S", "P">>, <<"P", "C", "X">>,
     <<"T", "I", "F", "F">>, <<"X", "B", "M">>}

ImageWriterInit(ftype) ==
    [BaseWriterInit("_init", "_paint_module", "_paint_text", "_finish")
        EXCEPT !.supported_file_types = ImageFileTypes, !._file_type = ftype]
        @@ [dpi |-> 6000, _image |-> Nil, _draw |-> None]

IsSVGWriter(w) == w._callbacks.initialize = "_init" /\ "compress" \in DOMAIN w

\* str.split("\n")
RECURSIVE split_loop(_, _, _, _)
split_loop(text, i, cur, out) ==
    IF i > Len(text) THEN Append(out, cur)
    ELSE IF text[i] = "\n"
         THEN split_loop(text, i + 1, <<>>, Append(out, cur))
         ELSE split_loop(text, i + 1, Append(cur, text[i]), out)

split(text) == split_loop(text, 1, <<>>, <<>>)

(***************************************************************************)
(* writer.py:262-324  the callbacks of SVGWriter.  The document is held as *)
(* the root's width and height, the comment and the children of the        *)
(* group, in order.  SIZE.format writes a length with three decimals,      *)
(* which a whole number of micrometres has; the y of a text line is held   *)
(* as um micrometres plus pt times pt2mm(1).                               *)
(***************************************************************************)
svg_init_keep(w, lines) ==
    \* a writer that builds its document once and keeps it
    IF w._document # Nil THEN w
    ELSE LET size == calculate_size(w, Len(lines[1]), Len(lines), w.dpi)
         IN  [w EXCEPT !._document =
                 [width |-> size.width, height |-> size.height,
                  comment |-> "COMMENT",
                  group |-> <<[tag |-> "rect", width |-> "100%",
                               height |-> "100%", fill |-> w.background]>>]]

svg_init(w, lines) ==
    LET size == calculate_size(w, Len(lines[1]), Len(lines), w.dpi)
    IN  [w EXCEPT !._document =
            [width |-> size.width, height |-> size.height,
             comment |-> "COMMENT",
             group |-> <<[tag |-> "rect", width |-> "100%",
                          height |-> "100%", fill |-> w.background]>>]]

svg_create_module(w, ev) ==
    [w EXCEPT !._document.group =
        Append(@, [tag |-> "rect", x |-> ev.xpos, y |-> ev.ypos,
                   width |-> ev.width, height |-> w.module_height,
                   fill |-> ev.color])]

svg_create_text(w, ev) ==
    LET barcodetext == IF w.human # <<>> THEN w.human ELSE w.text
        subtexts == split(barcodetext)
    IN  [w EXCEPT !._document.group =
            @ \o [k \in 1..Len(subtexts) |->
                    [tag |-> "text", x |-> ev.xpos,
                     y |-> [um |-> ev.ypos + (k - 1) * w.text_line_distance,
                            pt |-> (k - 1) * w.font_size],
                     fill |-> w.foreground, font_size |-> w.font_size,
                     content |-> subtexts[k]]]]

svg_finish(w) ==
    [xml |-> IF w.compress THEN "toxml" ELSE "toprettyxml",
     document |-> w._document]

(***************************************************************************)
(* writer.py:364-392  the callbacks of ImageWriter.  The image is held as  *)
(* its size, its background and the drawing calls made on it; positions    *)
(* are the millimetre values handed to mm2px.  The text of a line is       *)
(* placed at um micrometres plus pt times pt2mm(1)/2.                      *)
(***************************************************************************)
image_init(w, lines) ==
    LET size == calculate_size(w, Len(lines[1]), Len(lines), w.dpi)
    IN  [w EXCEPT !._image =
            [size |-> <<size.width, size.height>>, background |-> w.background,
             draw |-> <<>>],
         !._draw = "Draw"]

image_paint_module(w, ev) ==
    [w EXCEPT !._image.draw =
        Append(@, [op |-> "rectangle", x0 |-> ev.xpos, y0 |-> ev.ypos,
                   x1 |-> ev.xpos + ev.width, y1 |-> ev.ypos + w.module_height,
                   fill |-> ev.color])]

image_paint_text(w, ev) ==
    LET subtexts == split(w.text)
    IN  [w EXCEPT !._image.draw =
            @ \o [k \in 1..Len(subtexts) |->
                    [op |-> "text", x |-> ev.xpos,
                     y |-> [um |-> ev.ypos + (k - 1) * w.text_line_distance,
                            pt |-> (k - 1) * w.font_size],
                     font_size |-> w.font_size * 2, fill |-> w.foreground,
                     content |-> subtexts[k]]]]

image_finish(w) == w._image

(***************************************************************************)
(* writer.render(code) on an SVGWriter or ImageWriter: BaseWriter.render   *)
(* (writer.py:186-246) with the writer's own callbacks acting on the       *)
(* writer.  _init reads code[0] (writer.py:263, 365), so an empty code     *)
(* raises IndexError inside the initialize callback.                       *)
(***************************************************************************)
RECURSIVE apply_callbacks(_, _, _)
apply_callbacks(w, evs, i) ==
    IF i > Len(evs) THEN w
    ELSE LET ev == evs[i]
             svg == IsSVGWriter(w)
             w1 == CASE ev.ev = "initialize" ->
                          IF svg THEN svg_init(w, ev.code)
                          ELSE image_init(w, ev.code)
                     [] ev.ev = "paint_module" ->
                          IF svg THEN svg_create_module(w, ev)
                          ELSE image_paint_module(w, ev)
                     [] ev.ev = "paint_text" ->
                          IF svg THEN svg_create_text(w, ev)
                          ELSE image_paint_text(w, ev)
                     [] ev.ev = "finish" -> w
         IN  apply_callbacks(w1, evs, i + 1)

\* r is what BaseWriter.render did, w1 the writer after the callbacks
writer_rendered(r, w1) ==
    [w |-> w1, events |-> r.events, raised |-> r.raised,
     ret |-> IF r.raised # None THEN Nil
             ELSE IF IsSVGWriter(w1) THEN svg_finish(w1)
             ELSE image_finish(w1)]

writer_callbacks(w, r) == writer_rendered(r, apply_callbacks(w, r.events, 1))

writer_render(w, lines) ==
    IF lines = <<>>
    THEN [w |-> w, events |-> Initialize(w._callbacks, lines),
          raised |-> "IndexError", ret |-> Nil]
    ELSE writer_callbacks(w, render(w, lines))

(***************************************************************************)
(* __init__.py:20-39  __BARCODE_MAP: the registry, from a name (a str, as  *)
(* its characters) to the encoder class.                                   *)
(***************************************************************************)
BARCODE_MAP ==
    <<Item(<<"e", "a", "n", "8">>, "EAN8"),
      Item(<<"e", "a", "n", "1", "3">>, "EAN13"),
      Item(<<"e", "a", "n">>, "EAN13"),
      Item(<<"g", "t", "i", "n">>, "EAN14"),
      Item(<<"e", "a", "n", "1", "4">>, "EAN14"),
      Item(<<"j", "a", "n">>, "JAN"),
      Item(<<"u", "p", "c">>, "UPCA"),
      Item(<<"u", "p", "c", "a">>, "UPCA"),
      Item(<<"i", "s", "b", "n">>, "ISBN13"),
      Item(<<"i", "s", "b", "n", "1", "3">>, "ISBN13"),
      Item(<<"g", "s", "1">>, "ISBN13"),
      Item(<<"i", "s", "b", "n", "1", "0">>, "ISBN10"),
      Item(<<"i", "s", "s", "n">>, "ISSN"),
      Item(<<"c", "o", "d", "e", "3", "9">>, "Code39"),
      Item(<<"p", "z", "n">>, "PZN"),
      Item(<<"c", "o", "d", "e", "1", "2", "8">>, "Code128"),
      Item(<<"i", "t", "f">>, "ITF"),
      Item(<<"g", "s", "1", "_", "1", "2", "8">>, "Gs1_128")>>

\* str.lower() and str.upper(), character by character
UpperCase ==
    <<"A", "B", "C", "D", "E", "F", "G", "H", "I", "J", "K", "L", "M",
      "N", "O", "P", "Q", "R", "S", "T", "U", "V", "W", "X", "Y", "Z">>

LowerCase ==
    <<"a", "b", "c", "d", "e", "f", "g", "h", "i", "j", "k", "l", "m",
      "n", "o", "p", "q", "r", "s", "t", "u", "v", "w", "x", "y", "z">>

LowerChar(c) ==
    IF \E i \in 1..Len(UpperCase) : UpperCase[i] = c
    THEN LowerCase[CHOOSE i \in 1..Len(UpperCase) : UpperCase[i] = c]
    ELSE c

UpperChar(c) ==
    IF \E i \in 1..Len(LowerCase) : LowerCase[i] = c
    THEN UpperCase[CHOOSE i \in 1..Len(LowerCase) : LowerCase[i] = c]
    ELSE c

asis(name) == name

lower(name) == [i \in 1..Len(name) |-> LowerChar(name[i])]

upper(name) == [i \in 1..Len(name) |-> UpperChar(name[i])]

capitalize(name) ==
    [i \in 1..Len(name) |-> IF i = 1 THEN UpperChar(name[i]) ELSE name[i]]

(***************************************************************************)
(* The encoder classes (barcode/codex.py, ean.py, ... are not part of the  *)
(* sources at hand).  What the model needs of them is stated here from     *)
(* the specification: an encoder is constructed from the data and a        *)
(* writer, a fresh default writer when none is given (base.py:11,          *)
(* default_writer = SVGWriter); get_fullcode() is the data with the check  *)
(* digit appended; build() is a single line of modules: the encoding       *)
(* table's pattern of every data symbol between two guard bars.            *)
(***************************************************************************)
NewBarcode(cls, data, w) ==
    [cls |-> cls, code |-> data, shared |-> w # Nil,
     writer |-> IF w # Nil THEN Nil ELSE SVGWriterInit]

Checksum(data) ==
    IF Cardinality({i \in 1..Len(data) : data[i] = "1"}) % 2 = 0
    THEN "0" ELSE "1"

get_fullcode(bc) == Append(bc.code, Checksum(bc.code))

EncodingTable(d) == IF d = "0" THEN <<"0", "1">> ELSE <<"1", "0">>

build(bc) ==
    LET full == get_fullcode(bc)
    IN  <<<<"1">> \o Concat([i \in 1..Len(full) |-> EncodingTable(full[i])])
              \o <<"1">>>>

(***************************************************************************)
(* base.py:13-23  Barcode.default_writer_options, in insertion order.      *)
(***************************************************************************)
default_writer_options ==
    <<Item(Key(0, "module_width"), 200),
      Item(Key(0, "module_height"), 15000),
      Item(Key(0, "quiet_zone"), 6500),
      Item(Key(0, "font_size"), 10),
      Item(Key(0, "text_distance"), 5000),
      Item(Key(0, "background"), "white"),
      Item(Key(0, "foreground"), "black"),
      Item(Key(0, "write_text"), TRUE),
      Item(Key(0, "text"), <<>>)>>

(***************************************************************************)
(* __init__.py:45-82  get(name, code, writer, writer_options).  held is    *)
(* the writer object the caller passes (None when writer is None).  The    *)
(* result carries the value returned (the class, or the new barcode), the  *)
(* exception raised, and the state of the passed writer afterwards.        *)
(* writer_options is a dict: "writer_options or {}" gives the empty dict   *)
(* for None and for an empty dict alike, and None is passed as <<>>.       *)
(* The except-TypeError branch (lines 72-80) handles a TypeError of the    *)
(* encoder's constructor; the constructors modelled raise none.            *)
(***************************************************************************)
\* dict(bc.default_writer_options, **writer_options): a new dict; the class
\* attribute is left as it is
merged_in_place(shared_defaults, options) ==
    \* bc.default_writer_options.update(writer_options)
    [options |-> DictUpdate(shared_defaults, options),
     defaults |-> DictUpdate(shared_defaults, options)]

merged(shared_defaults, options) ==
    [options |-> DictUpdate(shared_defaults, options),
     defaults |-> shared_defaults]

get(name, data, held, writer_options, shared_defaults) ==
    LET options == writer_options
    IN  IF ~HasKey(BARCODE_MAP, lower(name))
        THEN [ret |-> Nil, raised |-> "BarcodeNotFoundError", held |-> held,
              defaults |-> shared_defaults]
        ELSE LET barcode == Get(BARCODE_MAP, lower(name))
             IN  IF data # NoneStr
                 THEN LET bc == NewBarcode(barcode, data, held)
                          w == IF bc.shared THEN held ELSE bc.writer
                          m == merged(shared_defaults, options)
                          r == set_options(w, m.options)
                      IN  [ret |-> IF r.raised # None THEN Nil
                                   ELSE IF bc.shared THEN bc
                                   ELSE [bc EXCEPT !.writer = r.w],
                           raised |-> r.raised,
                           held |-> IF bc.shared THEN r.w ELSE held,
                           defaults |-> m.defaults]
                 ELSE [ret |-> [class |-> barcode], raised |-> None,
                       held |-> held,
                       defaults |-> shared_defaults]

(***************************************************************************)
(* writer.py:326-336, 394-397  save(filename, output): the file written,   *)
(* under the name save returns.  SVGWriter appends ".svgz" or ".svg";      *)
(* ImageWriter appends the lower-cased file type and hands the upper-cased *)
(* file type to the image as the format.                                   *)
(***************************************************************************)
writer_save(w, filename, output) ==
    IF IsSVGWriter(w)
    THEN [name |-> filename,
          ext |-> IF w.compress THEN <<"s", "v", "g", "z">>
                  ELSE <<"s", "v", "g">>,
          format |-> "bytes", content |-> output]
    ELSE [name |-> filename, ext |-> lower(file_type(w)),
          format |-> upper(file_type(w)), content |-> output]

(***************************************************************************)
(* base.py:62-79  Barcode.render(text) of the barcode bc whose writer is   *)
(* w: the text is the argument when one is given, the full code when the   *)
(* writer has an attribute write_text; the value of write_text is not      *)
(* read.  The result carries the writer afterwards.                        *)
(***************************************************************************)
barcode_render(bc, text, w) ==
    LET w1 == IF text # NoneStr THEN [w EXCEPT !.text = text]
              ELSE IF hasattr(w, Key(0, "write_text"))
                   THEN [w EXCEPT !.text = get_fullcode(bc)]
              ELSE w
    IN  writer_render(w1, build(bc))

(***************************************************************************)
(* base.py:45-60  Barcode.save(filename, text).                            *)
(***************************************************************************)
\* r is what self.render(text) did
barcode_saved(r, filename) ==
    IF r.raised # None
    THEN [w |-> r.w, events |-> r.events, raised |-> r.raised,
          ret |-> Nil, written |-> {}]
    ELSE LET f == writer_save(r.w, filename, r.ret)
         IN  [w |-> r.w, events |-> r.events, raised |-> None,
              ret |-> [name |-> f.name, ext |-> f.ext], written |-> {f}]

barcode_save(bc, filename, text, w) ==
    barcode_saved(barcode_render(bc, text, w), filename)

(***************************************************************************)
(* base.py:81-97  Barcode.write(fp, text).  The first statement is         *)
(*   output = self.render(options, text)                                   *)
(* and options is no parameter, local or global of base.py: evaluating     *)
(* the argument raises NameError before render is called, and the          *)
(* statements that write to fp are not reached.  The result carries what   *)
(* has been written to fp.                                                 *)
(***************************************************************************)
barcode_write(bc, out, text, w) ==
    [w |-> w, events |-> <<>>, raised |-> "NameError", ret |-> Nil, fp |-> out]

(***************************************************************************)
(* __init__.py:89-102  generate(name, code, writer, output,                *)
(* writer_options, text, pil).  output is "str" for a file name and "fp"   *)
(* for a file-like object, whose contents so far are out.                  *)
(***************************************************************************)
\* g is what get did; the writer of the barcode it returned
barcode_writer(g) == IF g.ret.shared THEN g.held ELSE g.ret.writer

\* generate ends as get did
generate_base(g, out) ==
    [ret |-> Nil, raised |-> g.raised, held |-> g.held,
     defaults |-> g.defaults, events |-> <<>>, written |-> {}, fp |-> out]

\* generate ends as r, the call on the barcode, did
generate_result(g, r) ==
    [ret |-> r.ret, raised |-> r.raised,
     held |-> IF g.ret.shared THEN r.w ELSE g.held,
     defaults |-> g.defaults, events |-> r.events, written |-> r.written,
     fp |-> r.fp]

generate_with(g, output, out, text, pil) ==
    IF g.raised # None THEN generate_base(g, out)
    ELSE IF pil
    THEN generate_result(g,
             barcode_render(g.ret, text, barcode_writer(g))
                 @@ [written |-> {}, fp |-> out])
    ELSE IF output = "str"
    THEN generate_result(g,
             barcode_save(g.ret, <<"o", "u", "t">>, text, barcode_writer(g))
                 @@ [fp |-> out])
    ELSE generate_result(g,
             barcode_write(g.ret, out, text, barcode_writer(g))
                 @@ [written |-> {}])

generate(name, data, held, output, out, writer_options, text, pil, shared) ==
    generate_with(get(name, data, held, writer_options, shared),
                  output, out, text, pil)

(***************************************************************************)
(* Specification SpecRender: BaseWriter.render as a caller sees it.  A     *)
(* writer is constructed with any subset of the four callbacks, the caller *)
(* may register callbacks and set options, renders a code, and takes the   *)
(* result.                                                                 *)
(***************************************************************************)
Actions == {"initialize", "paint_module", "paint_text", "finish"}

CallbackValues(action) ==
    IF action = "finish" THEN {None, "artifact"} ELSE {None, "fn"}

Texts == {<<>>, <<"A">>}

RenderOptionSets ==
    {<<Item(Key(0, "text"), t)>> : t \in Texts}
        \cup {<<Item(Key(0, "center_text"), b)>> : b \in BOOLEAN}

InitRender ==
    /\ pc = "call"
    /\ barcodes = {}
    /\ defaults = default_writer_options
    /\ fp = <<>>
    /\ files = {}
    /\ \E i \in CallbackValues("initialize"), m \in CallbackValues("paint_module"),
          t \in CallbackValues("paint_text"), f \in CallbackValues("finish") :
            writer = BaseWriterInit(i, m, t, f)
    /\ code = <<>>
    /\ events = <<>>
    /\ mlists = <<>>
    /\ raised = None
    /\ ret = None
    /\ args = <<>>

RegisterCallback(action, callback) ==
    /\ pc = "call"
    /\ writer' = register_callback(writer, action, callback)
    /\ UNCHANGED <<pc, code, events, mlists, raised, ret, args>>
    /\ UNCHANGED api

SetOptions(options) ==
    /\ pc = "call"
    /\ writer' = set_options(writer, options).w
    /\ UNCHANGED <<pc, code, events, mlists, raised, ret, args>>
    /\ UNCHANGED api

Render(lines) ==
    /\ pc = "call"
    /\ LET r == render(writer, lines)
       IN  /\ events' = r.events
           /\ mlists' = r.mlists
           /\ raised' = r.raised
           /\ ret' = r.ret
    /\ code' = lines
    /\ pc' = "done"
    /\ UNCHANGED <<writer, args>>
    /\ UNCHANGED api

Return ==
    /\ pc = "done"
    /\ pc' = "call"
    /\ code' = <<>>
    /\ events' = <<>>
    /\ mlists' = <<>>
    /\ raised' = None
    /\ ret' = None
    /\ args' = <<>>
    /\ UNCHANGED writer
    /\ UNCHANGED api

NextRender ==
    \/ \E a \in Actions : \E c \in CallbackValues(a) : RegisterCallback(a, c)
    \/ \E o \in RenderOptionSets : SetOptions(o)
    \/ \E lines \in Codes : Render(lines)
    \/ Return

SpecRender == InitRender /\ [][NextRender]_vars

(***************************************************************************)
(* Properties of the render pass (SpecRender).                             *)
(***************************************************************************)
\* expand each token to |token| modules of the colour its sign gives
RECURSIVE Expand(_)
Expand(mlist) ==
    IF mlist = <<>> THEN <<>>
    ELSE [i \in 1..Abs(Head(mlist)) |-> IF Head(mlist) > 0 THEN "1" ELSE "0"]
             \o Expand(Tail(mlist))

CountEv(evs, kind) == Cardinality({i \in 1..Len(evs) : evs[i].ev = kind})

Rank(kind) ==
    CASE kind = "initialize" -> 0
      [] kind = "paint_module" -> 1
      [] kind = "paint_text" -> 2
      [] kind = "finish" -> 3

InOrder(evs) ==
    \A i, j \in 1..Len(evs) : i < j => Rank(evs[i].ev) <= Rank(evs[j].ev)

\* C1: the run-length tokens render derives for a line, expanded token by
\* token (|token| modules, "1" for a positive and "0" for a negative token),
\* give back the line character for character; no token is zero, the last
\* run is kept and an empty line has no tokens.
C1_RoundTrip ==
    pc = "done" =>
        /\ raised = None => Len(mlists) = Len(code)
        /\ \A k \in 1..Len(mlists) :
              /\ Expand(mlists[k]) = code[k]
              /\ \A t \in 1..Len(mlists[k]) : mlists[k][t] # 0
              /\ code[k] = <<>> => mlists[k] = <<>>

C1_Witness ==
    /\ pc = "done"
    /\ \E k \in 1..Len(mlists) :
          code[k] = <<"1", "1", "0">> /\ mlists[k] = <<2, -1>>
    /\ \E k \in 1..Len(mlists) : code[k] = <<>>

\* C2 as stated, read for the passes that return: every render pass emits
\* initialize exactly once and first, then the paint_module events, then at
\* most one paint_text, then finish exactly once and last, and returns what
\* finish returned.
C2_Original ==
    pc = "done" /\ raised = None =>
        /\ CountEv(events, "initialize") = 1
        /\ events[1] = [ev |-> "initialize", code |-> code]
        /\ InOrder(events)
        /\ CountEv(events, "paint_text") <= 1
        /\ CountEv(events, "finish") = 1
        /\ events[Len(events)].ev = "finish"
        /\ ret = writer._callbacks.finish

\* C2 amended: initialize(code) is emitted exactly once and first when an
\* initialize callback is registered and not at all otherwise; the events
\* come in the order initialize, paint_module*, at most one paint_text,
\* finish; a pass that returns ends with exactly one finish event and
\* returns the value finish returned; a pass that raises emits no finish.
C2_EventOrder ==
    pc = "done" =>
        /\ CountEv(events, "initialize")
              = (IF writer._callbacks.initialize # None THEN 1 ELSE 0)
        /\ writer._callbacks.initialize # None
              => events[1] = [ev |-> "initialize", code |-> code]
        /\ InOrder(events)
        /\ CountEv(events, "paint_text") <= 1
        /\ raised = None =>
              /\ CountEv(events, "finish") = 1
              /\ events[Len(events)].ev = "finish"
              /\ writer._callbacks.finish # None
              /\ ret = writer._callbacks.finish
        /\ raised # None => CountEv(events, "finish") = 0 /\ ret = None

C2_Witness ==
    /\ pc = "done"
    /\ raised = None
    /\ CountEv(events, "initialize") = 1
    /\ CountEv(events, "paint_module") >= 3
    /\ CountEv(events, "paint_text") = 1
    /\ ret = "artifact"

(***************************************************************************)
(* Specification SpecSize: calculate_size on a writer that carries the     *)
(* default writer options (as every writer of a barcode made by get()      *)
(* does), after any sequence of option changes.  The dpi values are the    *)
(* default of calculate_size (300) and ImageWriter's (600).                *)
(***************************************************************************)
SizeTexts == {<<>>, <<"A">>, <<"A", "\n", "B">>, <<"A", "\n">>}

SizeOptionSets ==
    {<<Item(Key(0, "quiet_zone"), v)>> : v \in {0, 6500}}
        \cup {<<Item(Key(0, "module_width"), v)>> : v \in {200, 300}}
        \cup {<<Item(Key(0, "module_height"), v)>> : v \in {15000, 10000}}
        \cup {<<Item(Key(0, "font_size"), v)>> : v \in {0, 10}}
        \cup {<<Item(Key(0, "text"), v)>> : v \in SizeTexts}
        \cup {<<Item(Key(0, "write_text"), v)>> : v \in BOOLEAN}

SizeModules == (0..MaxModules) \cup {95}

SizeDpis == {3000, 6000}

InitSize ==
    /\ pc = "call"
    /\ barcodes = {}
    /\ defaults = default_writer_options
    /\ fp = <<>>
    /\ files = {}
    /\ writer = set_options(BaseWriterInit(None, None, None, None),
                             default_writer_options).w
    /\ code = <<>>
    /\ events = <<>>
    /\ mlists = <<>>
    /\ raised = None
    /\ ret = None
    /\ args = <<>>

CalculateSize(modules_per_line, number_of_lines, dpi10) ==
    /\ pc = "call"
    /\ ret' = calculate_size(writer, modules_per_line, number_of_lines, dpi10)
    /\ args' = [modules_per_line |-> modules_per_line,
                number_of_lines |-> number_of_lines, dpi |-> dpi10]
    /\ pc' = "done"
    /\ UNCHANGED <<writer, code, events, mlists, raised>>
    /\ UNCHANGED api

NextSize ==
    \/ \E o \in SizeOptionSets : SetOptions(o)
    \/ \E m \in SizeModules, n \in 0..MaxLines, d \in SizeDpis :
          CalculateSize(m, n, d)
    \/ Return

SpecSize == InitSize /\ [][NextSize]_vars

(***************************************************************************)
(* Properties of calculate_size (SpecSize).                                *)
(***************************************************************************)
ExactWidthNum == mm2px_num(2 * writer.quiet_zone
                              + args.modules_per_line * writer.module_width,
                           args.dpi)

IsC3Example ==
    /\ pc = "done"
    /\ writer.module_width = 200
    /\ writer.quiet_zone = 6500
    /\ args.modules_per_line = 95
    /\ args.dpi = 3000

\* C3 as stated: the pixel width is round(mm_to_px(2*quiet_zone +
\* modules_per_line*module_width, dpi)), 378 in the example.
C3_Original ==
    pc = "done" =>
        /\ ret.width = RoundOf(ExactWidthNum, mm2px_den)
        /\ IsC3Example => ret.width = 378

\* C3 amended: the pixel width is mm_to_px(2*quiet_zone +
\* modules_per_line*module_width, dpi) = mm*dpi/25.4 cut to its integer part
\* (int(), not round()): width <= mm*dpi/25.4 < width + 1; in the example
\* 32*300/25.4 = 377.95... gives 377.
C3_Truncated ==
    pc = "done" =>
        /\ ret.width * mm2px_den <= ExactWidthNum
        /\ ExactWidthNum < (ret.width + 1) * mm2px_den
        /\ IsC3Example => ret.width = 377

C3_Witness == IsC3Example /\ ret.width = 377

\* the text block of the size calculation: present when font_size and text
\* are both truthy
TextBlockUm ==
    IF writer.font_size # 0 /\ writer.text # <<>>
    THEN writer.text_distance
            + writer.text_line_distance * (splitlines_len(writer.text) - 1)
    ELSE 0

TextBlockPt ==
    IF writer.font_size # 0 /\ writer.text # <<>>
    THEN writer.font_size * splitlines_len(writer.text)
    ELSE 0

\* C4 as stated: the height in millimetres is number_of_lines*module_height
\* plus the text block height, so number_of_lines*module_height when the
\* text is empty.
C4_Original ==
    pc = "done" =>
        /\ ret.height_mm.um
              = args.number_of_lines * writer.module_height + TextBlockUm
        /\ ret.height_mm.pt = TextBlockPt

\* C4 amended: the height in millimetres is 2.0 (a fixed margin) plus
\* number_of_lines*module_height plus the text block height, so
\* 2.0 + number_of_lines*module_height when the text is empty; the pixel
\* height then is that height times dpi/25.4 cut to its integer part.
C4_Height ==
    pc = "done" =>
        /\ ret.height_mm.um
              = 2000 + args.number_of_lines * writer.module_height + TextBlockUm
        /\ ret.height_mm.pt = TextBlockPt
        /\ writer.text = <<>> =>
              /\ ret.height_mm
                    = [um |-> 2000 + args.number_of_lines * writer.module_height,
                       pt |-> 0]
              /\ ret.height * mm2px_den <= ret.height_mm.um * args.dpi
              /\ ret.height_mm.um * args.dpi < (ret.height + 1) * mm2px_den

C4_Witness ==
    /\ pc = "done"
    /\ writer.text = <<>>
    /\ writer.module_height = 15000
    /\ args.number_of_lines = 1
    /\ ret.height_mm = [um |-> 17000, pt |-> 0]

C4_WitnessText ==
    /\ pc = "done"
    /\ writer.text = <<"A", "\n", "B">>
    /\ writer.font_size = 10
    /\ args.number_of_lines = 1
    /\ ret.height_mm = [um |-> 2000 + writer.module_height + 5000 + 1000, pt |-> 20]

(***************************************************************************)
(* Specification SpecGet: barcode.get as a caller sees it.  The caller     *)
(* holds one writer (an SVGWriter or an ImageWriter) and calls get with a  *)
(* name, with or without data, with or without that writer, and with       *)
(* writer options; it then takes the result and drops it.  A name is a     *)
(* registry key or another string, as written, upper-cased or capitalised. *)
(***************************************************************************)
RegistryKeys == {BARCODE_MAP[i].key : i \in 1..Len(BARCODE_MAP)}

OtherNames ==
    {<<"n", "o", "t", "a", "b", "a", "r", "c", "o", "d", "e">>, <<>>,
     <<"q", "r">>, <<"e", "a", "n", "1">>, <<"e", "a", "n", " ", "1", "3">>}

NameForms == {"asis", "upper", "capitalize"}

Spell(form, name) ==
    CASE form = "asis" -> name
      [] form = "upper" -> upper(name)
      [] form = "capitalize" -> capitalize(name)

Datas == {<<"0">>, <<"1">>}

OptionDicts ==
    {<<>>,
     <<Item(Key(0, "module_height"), 10000)>>,
     <<Item(Key(0, "write_text"), FALSE)>>,
     <<Item(Key(0, "text"), <<"X">>)>>,
     <<Item(Key(1, "text"), <<"X">>)>>,
     <<Item(Key(0, "text"), <<"A">>), Item(Key(1, "text"), <<"B">>)>>,
     <<Item(Key(1, "text"), <<"B">>), Item(Key(0, "text"), <<"A">>)>>,
     <<Item(Key(1, "module_width"), 300), Item(Key(2, "module_width"), 500)>>,
     <<Item(Key(0, "compress"), TRUE)>>,
     <<Item(Key(0, "bogus"), 1)>>,
     <<Item(Key(0, "font_size"), 0), Item(Key(0, "bogus"), 1),
       Item(Key(0, "quiet_zone"), 0)>>}

InitGet ==
    /\ pc = "call"
    /\ writer \in {SVGWriterInit, ImageWriterInit(<<"P", "N", "G">>)}
    /\ barcodes = {}
    /\ defaults = default_writer_options
    /\ fp = <<>>
    /\ files = {}
    /\ code = <<>>
    /\ events = <<>>
    /\ mlists = <<>>
    /\ raised = None
    /\ ret = None
    /\ args = <<>>

GetCall(key, form, data, pass, writer_options) ==
    /\ pc = "call"
    /\ LET name == Spell(form, key)
           r == get(name, data, IF pass THEN writer ELSE Nil, writer_options,
                    defaults)
       IN  /\ ret' = r.ret
           /\ raised' = r.raised
           /\ writer' = IF pass THEN r.held ELSE writer
           /\ defaults' = r.defaults
           /\ args' = [op |-> "get", key |-> key, form |-> form, name |-> name,
                       code |-> data, writer |-> pass,
                       writer_options |-> writer_options, before |-> writer]
    /\ pc' = "done"
    /\ UNCHANGED <<barcodes, fp, files, code, events, mlists>>

GetClass(key, form) ==
    /\ GetCall(key, form, NoneStr, FALSE, <<>>)

GetBarcode(key, form, data, pass, writer_options) ==
    /\ GetCall(key, form, data, pass, writer_options)

NextGet ==
    \/ \E k \in RegistryKeys \cup OtherNames, f \in NameForms : GetClass(k, f)
    \/ \E k \in RegistryKeys \cup OtherNames, f \in NameForms, d \in Datas,
          p \in BOOLEAN, o \in OptionDicts : GetBarcode(k, f, d, p, o)
    \/ Return

SpecGet == InitGet /\ [][NextGet]_vars

(***************************************************************************)
(* Properties of get.  A finished call is read off args (what was passed,  *)
(* and the caller's writer before the call), ret, raised and the caller's  *)
(* writer after it.                                                        *)
(***************************************************************************)
GetDone == pc = "done" /\ args.op = "get"

\* the writer the new barcode renders with, before and after get
ActiveBefore == IF args.writer THEN args.before ELSE SVGWriterInit

ActiveAfter == IF args.writer THEN writer ELSE ret.writer

\* the class registered under a key of the registry
Registered(key) ==
    BARCODE_MAP[CHOOSE i \in 1..Len(BARCODE_MAP) : BARCODE_MAP[i].key = key].val

\* C6: get looks the name up case-insensitively: a name that is a registry
\* key written in any case yields the class registered under the key (the
\* class itself when code is None, a barcode of that class otherwise) and
\* raises nothing; a name that is no key in any case raises
\* BarcodeNotFoundError, returns nothing, constructs no barcode and leaves
\* the caller's writer and the default options as they were.
C6_Lookup ==
    GetDone =>
        IF args.key \in RegistryKeys
        THEN /\ raised = None
             /\ IF args.code = NoneStr
                THEN ret = [class |-> Registered(args.key)]
                ELSE /\ ret # Nil
                     /\ ret.cls = Registered(args.key)
                     /\ ret.code = args.code
        ELSE /\ raised = "BarcodeNotFoundError"
             /\ ret = Nil
             /\ writer = args.before
             /\ defaults = default_writer_options
             /\ barcodes = {}

C6_Witness ==
    /\ GetDone
    /\ args.name = <<"E", "A", "N", "1", "3">>
    /\ args.code = <<"1">>
    /\ raised = None
    /\ ret.cls = "EAN13"

C6_WitnessNotFound ==
    /\ GetDone
    /\ args.name = <<"N", "O", "T", "A", "B", "A", "R", "C", "O", "D", "E">>
    /\ raised = "BarcodeNotFoundError"

\* the options of a call that the active writer has no attribute for
Unrecognised ==
    {i \in 1..Len(args.writer_options) :
        LET key == args.writer_options[i].key
        IN  key.name \notin (DOMAIN ActiveBefore \cup Properties)}

\* the options of a call that name an attribute of the active writer and
\* are spelt once in the call
Recognised ==
    {i \in 1..Len(args.writer_options) :
        LET O == args.writer_options
        IN  /\ O[i].key.name \in DOMAIN ActiveBefore \ PrivateAttrs
            /\ \A j \in 1..Len(O) : O[j].key.name = O[i].key.name => j = i}

\* C7 as stated: a get that is passed an option the active writer does not
\* recognise raises UnsupportedOption.
C7_Original ==
    GetDone /\ args.key \in RegistryKeys /\ args.code # NoneStr
            /\ Unrecognised # {}
        => raised = "UnsupportedOption"

\* C7: an option the active writer has no attribute for (compress with
\* the raster writer, or any unknown key) is ignored by set_options and
\* get: nothing is raised, the barcode is returned, the writer gains no
\* attribute of that name, and the options it does recognise are applied.
C7_Ignored ==
    GetDone /\ args.key \in RegistryKeys /\ args.code # NoneStr
            /\ Unrecognised # {}
        => /\ raised = None
           /\ ret # Nil
           /\ DOMAIN ActiveAfter = DOMAIN ActiveBefore
           /\ \A i \in Recognised :
                  ActiveAfter[args.writer_options[i].key.name]
                      = args.writer_options[i].val

C7_Witness ==
    /\ GetDone
    /\ args.key \in RegistryKeys
    /\ args.writer
    /\ ~IsSVGWriter(args.before)
    /\ args.writer_options = <<Item(Key(0, "compress"), TRUE)>>
    /\ raised = None
    /\ "compress" \notin DOMAIN writer

C7_WitnessBogus ==
    /\ GetDone
    /\ args.key \in RegistryKeys
    /\ Len(args.writer_options) = 3
    /\ args.writer_options[2].key = Key(0, "bogus")
    /\ raised = None
    /\ ActiveAfter.font_size = 0
    /\ ActiveAfter.quiet_zone = 0

\* the names of the options Barcode.default_writer_options lists
OptionNames ==
    {default_writer_options[i].key.name : i \in 1..Len(default_writer_options)}

Default(k) == Get(default_writer_options, Key(0, k))

\* the spellings of option k in O with leading underscores
Underscored(O, k) == {i \in 1..Len(O) : O[i].key.name = k /\ O[i].key.us > 0}

\* the value get gives option k: the last underscored spelling of k in O,
\* else O[k], else the default
Effective(O, k) ==
    IF Underscored(O, k) # {}
    THEN O[CHOOSE i \in Underscored(O, k) : \A j \in Underscored(O, k) : j <= i].val
    ELSE IF HasKey(O, Key(0, k)) THEN Get(O, Key(0, k))
    ELSE Default(k)

\* C8 as stated: after get returns a barcode, every listed option of its
\* writer is O[k] when k is in O and the default otherwise, and the shared
\* default options are unchanged.
C8_Original ==
    GetDone /\ raised = None /\ args.code # NoneStr
        => /\ \A k \in OptionNames :
                  ActiveAfter[k] = IF HasKey(args.writer_options, Key(0, k))
                                   THEN Get(args.writer_options, Key(0, k))
                                   ELSE Default(k)
           /\ defaults = default_writer_options

\* C8: after get returns a barcode, every listed option k of its writer
\* has the value of the last spelling of k with leading underscores in O
\* when there is one, else O[k] when k is in O, else the default; the
\* shared default options are the same before and after every call.
C8_Merge ==
    /\ defaults = default_writer_options
    /\ GetDone /\ raised = None /\ args.code # NoneStr
        => \A k \in OptionNames :
               ActiveAfter[k] = Effective(args.writer_options, k)

C8_Witness ==
    /\ GetDone
    /\ raised = None
    /\ args.code # NoneStr
    /\ args.writer_options = <<Item(Key(0, "module_height"), 10000)>>
    /\ ActiveAfter.module_height = 10000
    /\ ActiveAfter.module_width = 200
    /\ defaults = default_writer_options

C8_WitnessUnderscore ==
    /\ GetDone
    /\ raised = None
    /\ args.code # NoneStr
    /\ args.writer_options
           = <<Item(Key(0, "text"), <<"A">>), Item(Key(1, "text"), <<"B">>)>>
    /\ ActiveAfter.text = <<"B">>

(***************************************************************************)
(* Specification Spec: the package as a caller uses it.  The caller holds  *)
(* one writer (an SVGWriter or an ImageWriter) and a file object; it gets  *)
(* barcodes that share the writer, renders, saves and writes them with or  *)
(* without a text, and calls generate, with its writer or with none.       *)
(***************************************************************************)
ApiNames == {<<"e", "a", "n", "1", "3">>, <<"q", "r">>}

ApiOptionDicts == {<<>>, <<Item(Key(0, "write_text"), FALSE)>>}

ApiTexts == {NoneStr, <<>>, <<"X">>}

\* generate's (pil, output): an image asked for, a file name, a file object
Modes == {<<TRUE, "fp">>, <<FALSE, "str">>, <<FALSE, "fp">>}

\* open(name, "wb") and Image.save(name): the file of that name is replaced.
\* Of a file the caller's file system keeps here the name and the format;
\* its content is the output of the render pass that wrote it.
write_files(fs, written) ==
    {f \in fs : \A g \in written : <<g.name, g.ext>> # <<f.name, f.ext>>}
        \cup {[name |-> g.name, ext |-> g.ext, format |-> g.format] :
                 g \in written}

Init ==
    /\ pc = "call"
    /\ writer \in {SVGWriterInit, ImageWriterInit(<<"P", "N", "G">>)}
    /\ barcodes = {}
    /\ defaults = default_writer_options
    /\ fp = <<>>
    /\ files = {}
    /\ code = <<>>
    /\ events = <<>>
    /\ mlists = <<>>
    /\ raised = None
    /\ ret = None
    /\ args = <<>>

\* the caller takes the outcome r of a call: what it returned or raised,
\* what the callbacks received, and the objects it changed
GetOutcome(r) ==
    /\ ret' = r.ret
    /\ raised' = r.raised
    /\ writer' = r.held
    /\ defaults' = r.defaults
    /\ barcodes' = IF r.raised = None THEN barcodes \cup {r.ret} ELSE barcodes

Outcome(r) ==
    /\ ret' = r.ret
    /\ raised' = r.raised
    /\ events' = r.events
    /\ writer' = r.w

SaveOutcome(r) ==
    /\ Outcome(r)
    /\ files' = write_files(files, r.written)

WriteOutcome(r) ==
    /\ Outcome(r)
    /\ fp' = r.fp

GenerateOutcome(r, pass) ==
    /\ ret' = r.ret
    /\ raised' = r.raised
    /\ events' = r.events
    /\ writer' = IF pass THEN r.held ELSE writer
    /\ defaults' = r.defaults
    /\ files' = write_files(files, r.written)
    /\ fp' = r.fp

ApiGet(name, data, writer_options) ==
    /\ pc = "call"
    /\ GetOutcome(get(name, data, writer, writer_options, defaults))
    /\ args' = [op |-> "get", name |-> name, code |-> data, writer |-> TRUE,
                writer_options |-> writer_options, before |-> writer]
    /\ pc' = "done"
    /\ UNCHANGED <<fp, files, code, events, mlists>>

BarcodeRender(bc, text) ==
    /\ pc = "call"
    /\ Outcome(barcode_render(bc, text, writer))
    /\ code' = build(bc)
    /\ args' = [op |-> "render", bc |-> bc, text |-> text, before |-> writer]
    /\ pc' = "done"
    /\ UNCHANGED <<barcodes, defaults, fp, files, mlists>>

BarcodeSave(bc, text) ==
    /\ pc = "call"
    /\ SaveOutcome(barcode_save(bc, <<"o", "u", "t">>, text, writer))
    /\ code' = build(bc)
    /\ args' = [op |-> "save", bc |-> bc, text |-> text, before |-> writer]
    /\ pc' = "done"
    /\ UNCHANGED <<barcodes, defaults, fp, mlists>>

BarcodeWrite(bc, text) ==
    /\ pc = "call"
    /\ WriteOutcome(barcode_write(bc, fp, text, writer))
    /\ args' = [op |-> "write", bc |-> bc, text |-> text, before |-> writer]
    /\ pc' = "done"
    /\ UNCHANGED <<barcodes, defaults, files, code, mlists>>

Generate(name, data, pass, output, writer_options, text, pil) ==
    /\ pc = "call"
    /\ GenerateOutcome(generate(name, data, IF pass THEN writer ELSE Nil,
                                output, fp, writer_options, text, pil,
                                defaults), pass)
    /\ args' = [op |-> "generate", name |-> name, code |-> data,
                writer |-> pass, output |-> output,
                writer_options |-> writer_options, text |-> text,
                pil |-> pil, before |-> writer]
    /\ pc' = "done"
    /\ UNCHANGED <<barcodes, code, mlists>>

Next ==
    \/ \E n \in ApiNames, d \in Datas, o \in ApiOptionDicts : ApiGet(n, d, o)
    \/ \E bc \in barcodes, t \in ApiTexts : BarcodeRender(bc, t)
    \/ \E bc \in barcodes, t \in ApiTexts : BarcodeSave(bc, t)
    \/ \E bc \in barcodes, t \in ApiTexts : BarcodeWrite(bc, t)
    \/ \E n \in ApiNames, d \in Datas, p \in BOOLEAN, m \in Modes,
          o \in ApiOptionDicts, t \in ApiTexts :
            Generate(n, d, p, m[2], o, t, m[1])
    \/ Return

Spec == Init /\ [][Next]_vars

(***************************************************************************)
(* Properties of Barcode.render, Barcode.write and generate.  After a      *)
(* render pass of a barcode, writer is the writer it ran on, code the      *)
(* modules built, events what the callbacks received and ret the artifact. *)
(***************************************************************************)
\* a finished Barcode.render
RenderDone == pc = "done" /\ args.op = "render"

PaintTexts == {i \in 1..Len(events) : events[i].ev = "paint_text"}

\* the height in pixels of an artifact of writer w
OutputHeight(w, out) ==
    IF IsSVGWriter(w) THEN out.document.height ELSE out.size[2]

\* C5 as stated: a render pass of a barcode whose writer has write_text
\* false, or whose text is empty, has no text block: no paint_text event
\* is emitted and the artifact is as high as calculate_size makes it for
\* an empty text.
C5_Original ==
    RenderDone /\ raised = None /\ (~writer.write_text \/ writer.text = <<>>)
        => /\ PaintTexts = {}
           /\ OutputHeight(writer, ret)
                = calculate_size([writer EXCEPT !.text = <<>>], Len(code[1]),
                                 Len(code), writer.dpi).height

\* the part of C5 the code keeps: a pass whose text is empty has no text
\* block
C5_EmptyText ==
    RenderDone /\ raised = None /\ writer.text = <<>>
        => /\ PaintTexts = {}
           /\ OutputHeight(writer, ret)
                = calculate_size(writer, Len(code[1]), Len(code),
                                 writer.dpi).height

\* a writer as constructed in what a render pass leaves behind: no text,
\* no document, no image
Fresh(w) ==
    IF IsSVGWriter(w) THEN [w EXCEPT !.text = <<>>, !._document = Nil]
    ELSE [w EXCEPT !.text = <<>>, !._image = Nil, !._draw = None]

\* C9: Barcode.render is idempotent and history-independent: the events
\* and the artifact of render(text) on a barcode are those of the same
\* call on a writer with the same options that has never rendered,
\* whatever render passes (of this barcode with another text, of another
\* barcode sharing the writer) the writer has been through.
C9_Idempotent ==
    RenderDone
        => LET r == barcode_render(args.bc, args.text, Fresh(args.before))
           IN  /\ events = r.events
               /\ ret = r.ret
               /\ raised = r.raised

C9_Witness ==
    /\ RenderDone
    /\ raised = None
    /\ IsSVGWriter(writer)
    /\ args.before._document # Nil
    /\ args.before._document # writer._document
    /\ args.before.text # writer.text
    /\ args.before.text # <<>>

\* C10 as stated: Barcode.write(fp, text) renders the barcode and writes
\* the output to fp, and generate with a file object as output and
\* pil=False, for a registered name, completes by writing to fp.
C10_Original ==
    /\ pc = "done" /\ args.op = "write"
        => /\ raised = None
           /\ fp # <<>>
           /\ fp[Len(fp)] = barcode_render(args.bc, args.text, args.before).ret
    /\ pc = "done" /\ args.op = "generate" /\ ~args.pil /\ args.output = "fp"
            /\ HasKey(BARCODE_MAP, lower(args.name))
        => raised = None /\ fp # <<>>

\* what Barcode.write does: it raises NameError and leaves fp, the writer
\* and the files as they were
C10_NameError ==
    pc = "done" /\ args.op = "write"
        => raised = "NameError" /\ fp = <<>> /\ writer = args.before

(***************************************************************************)
(* Properties of the paint events of BaseWriter.render (SpecRender).  A    *)
(* line's tokens are its runs of equal characters; line k is code[k],      *)
(* counted from 1, so the claims' 0-based k is k - 1 here.                 *)
(***************************************************************************)
PaintModules == SelectSeq(events, LAMBDA e : e.ev = "paint_module")

\* the number of runs of equal characters of a line
Runs(line) ==
    Cardinality({i \in 1..Len(line) : i = Len(line) \/ line[i] # line[i + 1]})

\* the number of paint_module events of the lines before line k, each but
\* the last followed by its quiet zone
RECURSIVE Before(_, _)
Before(lines, k) ==
    IF k = 1 THEN 0 ELSE Before(lines, k - 1) + Runs(lines[k - 1]) + 1

\* the vertical cursor during line k: 1.0 mm plus module_height per line
LineYpos(k) == 1000 + (k - 1) * writer.module_height

\* C11: in a render pass over a code of n lines whose writer has a
\* paint_module callback, the paint_module events are, line by line, one
\* per token of the line and then, for every line but the last, exactly
\* one more, in background colour, quiet_zone wide, at the x where the
\* line's modules ended (n-1 such events, none after the last line); every
\* paint_module event of line k has y = 1.0 mm + k*module_height (k from
\* 0).  Without a paint_module callback no paint_module event is emitted.
C11_QuietZone ==
    pc = "done" =>
        IF writer._callbacks.paint_module = None
        THEN PaintModules = <<>>
        ELSE LET P == PaintModules
                 n == Len(code)
             IN  /\ Len(P) = IF n = 0 THEN 0 ELSE Before(code, n + 1) - 1
                 /\ \A k \in 1..n :
                       /\ \A t \in 1..Runs(code[k]) :
                              P[Before(code, k) + t].ypos = LineYpos(k)
                       /\ k < n =>
                              P[Before(code, k) + Runs(code[k]) + 1]
                                = [ev |-> "paint_module",
                                   xpos |-> writer.quiet_zone
                                              + Len(code[k]) * writer.module_width,
                                   ypos |-> LineYpos(k),
                                   width |-> writer.quiet_zone,
                                   color |-> writer.background]

C11_Witness ==
    /\ pc = "done"
    /\ raised = None
    /\ code = <<<<"1", "0">>, <<"1">>>>
    /\ Len(PaintModules) = 4
    /\ PaintModules[3].width = writer.quiet_zone
    /\ PaintModules[3].xpos = writer.quiet_zone + 2 * writer.module_width
    /\ PaintModules[4].ypos = 1000 + writer.module_height

PaintTextEvents == SelectSeq(events, LAMBDA e : e.ev = "paint_text")

\* the vertical cursor after the last line, plus text_distance
TextYpos == 1000 + Len(code) * writer.module_height + writer.text_distance

\* C12 as stated: a paint_text event has its x at the midpoint of the body
\* span from quiet_zone to quiet_zone + modules_per_line*module_width when
\* center_text is enabled and at quiet_zone otherwise, modules_per_line
\* being the length of the code's first line as the writers hand it to
\* calculate_size, and its y at the vertical cursor after the last line
\* plus text_distance, for every code.
C12_Original ==
    pc = "done" =>
        \A i \in 1..Len(PaintTextEvents) :
            LET e == PaintTextEvents[i]
            IN  /\ e.ypos = TextYpos
                /\ IF writer.center_text
                   THEN 2 * (e.xpos - writer.quiet_zone)
                            = Len(code[1]) * writer.module_width
                   ELSE e.xpos = writer.quiet_zone

\* C12: a paint_text event has its x at the midpoint of the module span of
\* the code's last line, from quiet_zone to quiet_zone + (length of the
\* last line)*module_width, when center_text is enabled and at quiet_zone
\* otherwise, and its y at the vertical cursor after the last line plus
\* text_distance: 1.0 mm + n*module_height + text_distance.  For a code
\* whose lines are equally long the span is that of the barcode body.
C12_TextPosition ==
    pc = "done" =>
        \A i \in 1..Len(PaintTextEvents) :
            LET e == PaintTextEvents[i]
            IN  /\ e.ypos = TextYpos
                /\ IF writer.center_text
                   THEN 2 * (e.xpos - writer.quiet_zone)
                            = Len(code[Len(code)]) * writer.module_width
                   ELSE e.xpos = writer.quiet_zone

C12_Witness ==
    /\ pc = "done"
    /\ raised = None
    /\ writer.center_text
    /\ code = <<<<"1", "0", "1">>, <<"1">>>>
    /\ Len(PaintTextEvents) = 1
    /\ 2 * (PaintTextEvents[1].xpos - writer.quiet_zone) = writer.module_width

(***************************************************************************)
(* Specification SpecFileType: the file type of a writer.  A writer is     *)
(* constructed (a BaseWriter, an SVGWriter, or an ImageWriter with one of  *)
(* its file types) and its file_type is assigned any number of times,      *)
(* directly or through set_options under a key that is "file_type" after   *)
(* its leading underscores are stripped, alone or among other options.     *)
(* supported_file_types is never assigned.                                 *)
(***************************************************************************)
FileTypeValues ==
    ImageFileTypes
        \cup {<<"S", "V", "G">>, <<"p", "n", "g">>, <<"J", "P", "G">>, <<>>}

\* the number of leading underscores a key is spelt with, at most
MaxUnderscores == 2

FileTypeOptionSets(v) ==
    {<<Item(Key(us, "file_type"), v)>> : us \in 0..MaxUnderscores}
        \cup {<<Item(Key(0, "module_height"), 20000),
                Item(Key(1, "file_type"), v),
                Item(Key(0, "quiet_zone"), 1000)>>}

InitFileType ==
    /\ pc = "call"
    /\ writer \in {BaseWriterInit(None, None, None, None), SVGWriterInit}
                      \cup {ImageWriterInit(t) : t \in ImageFileTypes}
    /\ barcodes = {}
    /\ defaults = default_writer_options
    /\ fp = <<>>
    /\ files = {}
    /\ code = <<>>
    /\ events = <<>>
    /\ mlists = <<>>
    /\ raised = None
    /\ ret = None
    /\ args = <<>>

\* the caller takes the outcome r of an assignment
Assigned(r) ==
    /\ writer' = r.w
    /\ raised' = r.raised

AssignFileType(value) ==
    /\ pc = "call"
    /\ Assigned(file_type_setter(writer, value))
    /\ args' = [op |-> "assign", value |-> value, before |-> writer]
    /\ pc' = "done"
    /\ UNCHANGED <<code, events, mlists, ret>>
    /\ UNCHANGED api

SetFileTypeOption(value, options) ==
    /\ pc = "call"
    /\ Assigned(set_options(writer, options))
    /\ args' = [op |-> "set_options", value |-> value, options |-> options,
                before |-> writer]
    /\ pc' = "done"
    /\ UNCHANGED <<code, events, mlists, ret>>
    /\ UNCHANGED api

NextFileType ==
    \/ \E v \in FileTypeValues : AssignFileType(v)
    \/ \E v \in FileTypeValues : \E o \in FileTypeOptionSets(v) :
          SetFileTypeOption(v, o)
    \/ Return

SpecFileType == InitFileType /\ [][NextFileType]_vars

\* C13 as stated: after any assignment of file_type, with
\* supported_file_types as the constructor set it, file_type is a member
\* of supported_file_types; an assignment of a value that is not raises
\* ValueError and leaves file_type unchanged.
C13_Original ==
    pc = "done" =>
        /\ writer.supported_file_types = args.before.supported_file_types
        /\ file_type(writer) \in writer.supported_file_types
        /\ args.value \notin args.before.supported_file_types
               => raised = "ValueError"
                  /\ file_type(writer) = file_type(args.before)

\* C13: on an SVGWriter or an ImageWriter, after any sequence of
\* assignments of file_type, directly or through set_options,
\* file_type is a member of supported_file_types; on a BaseWriter, whose
\* supported_file_types is empty, file_type stays None.  An assignment of
\* a supported value sets file_type to it and raises nothing; one of any
\* other value raises ValueError and leaves file_type unchanged.
\* supported_file_types is as the constructor set it throughout.
C13_FileType ==
    /\ IF writer.supported_file_types = {}
       THEN file_type(writer) = None
       ELSE file_type(writer) \in writer.supported_file_types
    /\ pc = "done" =>
        /\ writer.supported_file_types = args.before.supported_file_types
        /\ IF args.value \in args.before.supported_file_types
           THEN raised = None /\ file_type(writer) = args.value
           ELSE raised = "ValueError"
                /\ file_type(writer) = file_type(args.before)

C13_Witness ==
    /\ pc = "done"
    /\ args.op = "set_options"
    /\ args.options = <<Item(Key(2, "file_type"), <<"p", "n", "g">>)>>
    /\ args.before.supported_file_types = ImageFileTypes
    /\ raised = "ValueError"
    /\ file_type(writer) = <<"G", "I", "F">>

====
